---------------------------- MODULE Spec2Model ----------------------------
(***************************************************************************)
(* A model of the MIPS assembler / simulator pipeline:                     *)
(*   tokenize (sim/tokenizer.rs)  ->  Assembler::assemble (assembler.rs)   *)
(*   ->  Simulator::step (simulator.rs)  driven by main (main.rs).         *)
(*                                                                         *)
(* Source text is a sequence of lines, a line a sequence of one-character  *)
(* strings.  A 32-bit register value is a record [hi, lo] of two 16-bit    *)
(* halves (a u32 does not fit the checker's integers); an i32 immediate    *)
(* and an address below 2^31 are plain integers.                           *)
(***************************************************************************)
EXTENDS Integers, Sequences, FiniteSets, TLC

VARIABLES
    source,           \* the file: a sequence of lines
    phase,            \* where main is: "tokenize","assemble","load","run","exited"
    tokenized,        \* tokenize()'s Vec<Vec<Token>>
    line_idx,         \* index of the next token-line of assemble()'s for loop
    symbols,          \* Assembler.symbols
    data_addr,        \* Assembler.data_addr
    text_addr,        \* Assembler.text_addr
    entry_point,      \* Assembler.entry_point (<<>> is None, <<name>> is Some)
    memory,           \* Assembler.memory
    text_lines,       \* Assembler.text_lines
    current_segment,  \* Assembler.current_segment
    asm_error,        \* the AssemblerError assemble() returned, "" while Ok
    instructions,     \* Simulator.instructions (the text image)
    sim_memory,       \* Simulator.memory
    registers,        \* Simulator.registers
    pc,               \* Simulator.pc
    sim_error,        \* the SimulatorError of the last step(), kind "" while Ok
    stdout,           \* the bytes the syscalls printed
    notice,           \* which closing line main printed, "" while running
    exit_code,        \* the process exit code; meaningful once phase = "exited"
    steps,            \* how many times main's loop has called step()
    codec_instr,      \* the Instruction handed to encode()
    codec_word,       \* the word encode() returned, <<>> before it ran
    codec_decoded     \* what the format's decoder made of that word

vars == << source, phase, tokenized, line_idx, symbols, data_addr, text_addr,
           entry_point, memory, text_lines, current_segment, asm_error,
           instructions, sim_memory, registers, pc, sim_error, stdout, notice,
           exit_code, steps, codec_instr, codec_word, codec_decoded >>

program_vars == << source, phase, tokenized, line_idx, symbols, data_addr,
                   text_addr, entry_point, memory, text_lines, current_segment,
                   asm_error, instructions, sim_memory, registers, pc, sim_error,
                   stdout, notice, exit_code, steps >>

codec_vars == << codec_instr, codec_word, codec_decoded >>

asm_vars == << symbols, data_addr, text_addr, entry_point, memory, text_lines,
               current_segment >>

sim_vars == << instructions, sim_memory, registers, pc, sim_error, stdout >>

-----------------------------------------------------------------------------
(* Program constants *)

BASE_TEXT_ADDR == 4194304       \* 0x0040_0000
BASE_DATA_ADDR == 268500992     \* 0x1001_0000
MEMORY_SIZE == 65536            \* 64 * 1024

TwoTo16 == 2^16
I32_MAX == 32767 * TwoTo16 + 65535
I32_MIN == (-I32_MAX) - 1
PANIC_EXIT_CODE == 101

-----------------------------------------------------------------------------
(* 32-bit words as two 16-bit halves *)

Word(h, l) == [hi |-> h, lo |-> l]
WZero == Word(0, 0)

\* `x as u32` for an i32 x
ToWord(x) == Word((x \div TwoTo16) % TwoTo16, x % TwoTo16)

\* `w as i32` for a u32 w
ToI32(w) == IF w.hi >= 32768 THEN (w.hi - TwoTo16) * TwoTo16 + w.lo
                             ELSE w.hi * TwoTo16 + w.lo

\* u32::wrapping_add
WrappingAdd(a, b) ==
    LET l == a.lo + b.lo
        h == a.hi + b.hi + (l \div TwoTo16)
    IN  Word(h % TwoTo16, l % TwoTo16)

RECURSIVE Or16(_, _, _)
Or16(a, b, n) ==
    IF n = 0 THEN 0
    ELSE (IF (a % 2 = 1) \/ (b % 2 = 1) THEN 1 ELSE 0)
         + 2 * Or16(a \div 2, b \div 2, n - 1)

\* u32 | u32
BitOr(a, b) == Word(Or16(a.hi, b.hi, 16), Or16(a.lo, b.lo, 16))

\* (x as u32) << 16
Shl16(w) == Word(w.lo, 0)

\* a < b on u32
WLess(a, b) == a.hi < b.hi \/ (a.hi = b.hi /\ a.lo < b.lo)

-----------------------------------------------------------------------------
(* Characters *)

Lower ==
    << "a", "b", "c", "d", "e", "f", "g", "h", "i", "j", "k", "l", "m",
       "n", "o", "p", "q", "r", "s", "t", "u", "v", "w", "x", "y", "z" >>
Upper ==
    << "A", "B", "C", "D", "E", "F", "G", "H", "I", "J", "K", "L", "M",
       "N", "O", "P", "Q", "R", "S", "T", "U", "V", "W", "X", "Y", "Z" >>
Digits == << "0", "1", "2", "3", "4", "5", "6", "7", "8", "9" >>

IsIn(c, tbl) == \E i \in 1..Len(tbl) : tbl[i] = c
IndexIn(c, tbl) == CHOOSE i \in 1..Len(tbl) : tbl[i] = c

\* the UTF-8 byte of an ASCII character of the model's alphabet
Ord(c) ==
    IF IsIn(c, Lower) THEN 96 + IndexIn(c, Lower)
    ELSE IF IsIn(c, Upper) THEN 64 + IndexIn(c, Upper)
    ELSE IF IsIn(c, Digits) THEN 47 + IndexIn(c, Digits)
    ELSE CASE c = "\t" -> 9
           [] c = "\n" -> 10
           [] c = " "  -> 32
           [] c = "!"  -> 33
           [] c = "\"" -> 34
           [] c = "#"  -> 35
           [] c = "$"  -> 36
           [] c = "+"  -> 43
           [] c = ","  -> 44
           [] c = "-"  -> 45
           [] c = "."  -> 46
           [] c = ":"  -> 58
           [] c = "\\" -> 92
           [] c = "_"  -> 95

IsDigit(c) == IsIn(c, Digits)
DigitVal(c) == IndexIn(c, Digits) - 1

HexLower == SubSeq(Lower, 1, 6)
HexUpper == SubSeq(Upper, 1, 6)
IsHexDigit(c) == IsDigit(c) \/ IsIn(c, HexLower) \/ IsIn(c, HexUpper)
HexVal(c) ==
    IF IsDigit(c) THEN DigitVal(c)
    ELSE IF IsIn(c, HexLower) THEN 9 + IndexIn(c, HexLower)
    ELSE 9 + IndexIn(c, HexUpper)

StartsWith(s, p) == Len(s) >= Len(p) /\ SubSeq(s, 1, Len(p)) = p
EndsWith(s, p) == Len(s) >= Len(p) /\ SubSeq(s, Len(s) - Len(p) + 1, Len(s)) = p

-----------------------------------------------------------------------------
(* Lexer: sim/tokenizer.rs *)

Token(type, kind, text, value, decl) ==
    [type |-> type, kind |-> kind, text |-> text, value |-> value, decl |-> decl]

DirectiveTok(kind) == Token("Directive", kind, <<>>, 0, FALSE)
RegisterTok(name)  == Token("Register", "", name, 0, FALSE)
LabelTok(name, d)  == Token("Label", "", name, 0, d)
NumberTok(v)       == Token("Number", "", <<>>, v, FALSE)
OperatorTok(name)  == Token("Operator", "", name, 0, FALSE)
TextTok(value)     == Token("Text", "", value, 0, FALSE)

\* parse_directive: "" stands for Err(UnknownDirective)
parse_directive(token) ==
    CASE token = <<".", "d", "a", "t", "a">>           -> "DataDirective"
      [] token = <<".", "t", "e", "x", "t">>           -> "TextDirective"
      [] token = <<".", "g", "l", "o", "b", "l">>      -> "GlobalDirective"
      [] token = <<".", "a", "s", "c", "i", "i">>      -> "AsciiDirective"
      [] token = <<".", "a", "s", "c", "i", "i", "z">> -> "AsciizDirective"
      [] token = <<".", "b", "y", "t", "e">>           -> "ByteDirective"
      [] token = <<".", "w", "o", "r", "d">>           -> "WordDirective"
      [] OTHER                                         -> ""

RECURSIVE unescape_from(_, _, _)
unescape_from(s, i, result) ==
    IF i > Len(s) THEN result
    ELSE IF s[i] = "\\"
         THEN LET some == i + 1 <= Len(s)
                  n    == IF some THEN s[i + 1] ELSE ""
                  out  == CASE some /\ n = "n"  -> "\n"
                            [] some /\ n = "t"  -> "\t"
                            [] some /\ n = "\\" -> "\\"
                            [] some /\ n = "\"" -> "\""
                            [] OTHER            -> "\\"
              IN  unescape_from(s, i + 2, Append(result, out))
         ELSE unescape_from(s, i + 1, Append(result, s[i]))

unescape_string(s) == unescape_from(s, 1, <<>>)

IsWhitespace(c) == c = " " \/ c = "\t"

\* line.split(closure).filter(non-empty): the closure flips inside_string on
\* every '"' and reports a separator only outside a string
RECURSIVE SplitRaw(_, _, _, _, _)
SplitRaw(line, i, inside_string, cur, acc) ==
    LET flush == IF cur = <<>> THEN acc ELSE Append(acc, cur) IN
    IF i > Len(line) THEN flush
    ELSE LET c == line[i] IN
         IF c = "\""
         THEN SplitRaw(line, i + 1, ~inside_string, Append(cur, c), acc)
         ELSE IF inside_string
         THEN SplitRaw(line, i + 1, inside_string, Append(cur, c), acc)
         ELSE IF IsWhitespace(c) \/ c = ","
         THEN SplitRaw(line, i + 1, inside_string, <<>>, flush)
         ELSE SplitRaw(line, i + 1, inside_string, Append(cur, c), acc)

raw_tokens(line) == SplitRaw(line, 1, FALSE, <<>>, <<>>)

\* i32::from_str_radix on the digits after an optional sign; the accumulator
\* runs negative for a '-' literal, as the library's does
RECURSIVE ParseDigits(_, _, _, _, _)
ParseDigits(s, i, radix, neg, acc) ==
    IF i > Len(s) THEN [ok |-> TRUE, value |-> acc]
    ELSE IF ~(IF radix = 16 THEN IsHexDigit(s[i]) ELSE IsDigit(s[i]))
    THEN [ok |-> FALSE, value |-> 0]
    ELSE LET d == HexVal(s[i]) IN
         IF neg
         THEN IF acc < (I32_MIN + d) \div radix + (IF (I32_MIN + d) % radix = 0 THEN 0 ELSE 1)
              THEN [ok |-> FALSE, value |-> 0]
              ELSE ParseDigits(s, i + 1, radix, neg, acc * radix - d)
         ELSE IF acc > (I32_MAX - d) \div radix
              THEN [ok |-> FALSE, value |-> 0]
              ELSE ParseDigits(s, i + 1, radix, neg, acc * radix + d)

ParseI32(s, radix) ==
    IF s = <<>> THEN [ok |-> FALSE, value |-> 0]
    ELSE LET signed == s[1] = "-" \/ s[1] = "+"
             body   == IF signed THEN Tail(s) ELSE s
         IN  IF body = <<>> THEN [ok |-> FALSE, value |-> 0]
             ELSE ParseDigits(body, 1, radix, s[1] = "-", 0)

RECURSIVE trim_end_colons(_)
trim_end_colons(s) ==
    IF s # <<>> /\ s[Len(s)] = ":" THEN trim_end_colons(SubSeq(s, 1, Len(s) - 1)) ELSE s

\* one raw token to a Token; type "Error" for an unknown directive and type
\* "Panic" for the slice token[1..len-1] of a one-character '"' token
classify(token, i) ==
    IF StartsWith(token, <<".">>)
    THEN IF parse_directive(token) = ""
         THEN Token("Error", "UnknownDirective", token, 0, FALSE)
         ELSE DirectiveTok(parse_directive(token))
    ELSE IF StartsWith(token, <<"\"">>) /\ EndsWith(token, <<"\"">>)
    THEN IF Len(token) < 2
         THEN Token("Panic", "", token, 0, FALSE)
         ELSE TextTok(unescape_string(SubSeq(token, 2, Len(token) - 1)))
    ELSE IF StartsWith(token, <<"0", "x">>) /\ ParseI32(SubSeq(token, 3, Len(token)), 16).ok
    THEN NumberTok(ParseI32(SubSeq(token, 3, Len(token)), 16).value)
    ELSE IF ParseI32(token, 10).ok
    THEN NumberTok(ParseI32(token, 10).value)
    ELSE IF StartsWith(token, <<"$">>)
    THEN RegisterTok(token)
    ELSE IF EndsWith(token, <<":">>)
    THEN LabelTok(trim_end_colons(token), TRUE)
    ELSE IF i = 0
    THEN OperatorTok(token)
    ELSE LabelTok(token, FALSE)

\* the comment handling at the head of the loop
RECURSIVE BeforeHash(_, _)
BeforeHash(line, i) ==
    IF i > Len(line) THEN line
    ELSE IF line[i] = "#" THEN SubSeq(line, 1, i - 1)
    ELSE BeforeHash(line, i + 1)

tokenize_line(line) ==
    LET raw == raw_tokens(BeforeHash(line, 1))
    IN  [i \in 1..Len(raw) |-> classify(raw[i], i - 1)]

\* tokenize: the token-lines of the file, or the first failure in file order
RECURSIVE tokenize_from(_, _, _)
tokenize_from(lines, n, all_tokens) ==
    IF n > Len(lines) THEN [result |-> "Ok", lines |-> all_tokens]
    ELSE IF StartsWith(lines[n], <<"#">>)
    THEN tokenize_from(lines, n + 1, all_tokens)
    ELSE LET tokens == tokenize_line(lines[n])
             bad    == {i \in 1..Len(tokens) : tokens[i].type \in {"Error", "Panic"}}
         IN  IF bad = {}
             THEN tokenize_from(lines, n + 1, Append(all_tokens, tokens))
             ELSE LET first == CHOOSE i \in bad : \A j \in bad : i <= j
                  IN  [result |-> IF tokens[first].type = "Panic" THEN "Panic"
                                  ELSE "UnknownDirective",
                       lines |-> <<>>]

tokenize(file) == tokenize_from(file, 1, <<>>)

-----------------------------------------------------------------------------
(* Registers: sim/cpu.rs *)

ZERO == 0
V0 == 2
A0 == 4
A1 == 5

RegisterNames ==
    << <<"$","z","e","r","o">>, <<"$","a","t">>, <<"$","v","0">>, <<"$","v","1">>,
       <<"$","a","0">>, <<"$","a","1">>, <<"$","a","2">>, <<"$","a","3">>,
       <<"$","t","0">>, <<"$","t","1">>, <<"$","t","2">>, <<"$","t","3">>,
       <<"$","t","4">>, <<"$","t","5">>, <<"$","t","6">>, <<"$","t","7">>,
       <<"$","s","0">>, <<"$","s","1">>, <<"$","s","2">>, <<"$","s","3">>,
       <<"$","s","4">>, <<"$","s","5">>, <<"$","s","6">>, <<"$","s","7">>,
       <<"$","t","8">>, <<"$","t","9">>, <<"$","k","0">>, <<"$","k","1">>,
       <<"$","g","p">>, <<"$","s","p">>, <<"$","f","p">>, <<"$","r","a">> >>

\* Register::from_str: ok FALSE stands for Err(NoSuchRegister)
RegisterFromStr(name) ==
    IF name = <<"$", "0">> THEN [ok |-> TRUE, reg |-> ZERO]
    ELSE IF IsIn(name, RegisterNames)
    THEN [ok |-> TRUE, reg |-> IndexIn(name, RegisterNames) - 1]
    ELSE [ok |-> FALSE, reg |-> ZERO]

\* RegFile::default
RegFileDefault == [r \in 0..31 |-> WZero]

\* RegFile::get
RegGet(file, r) == IF r = 0 THEN WZero ELSE file[r]

\* a register file whose set stores into index 0 as well
RegSetUnguarded(file, r, val) == [file EXCEPT ![r] = val]

\* RegFile::set
RegSet(file, r, val) == IF r # 0 THEN [file EXCEPT ![r] = val] ELSE file

-----------------------------------------------------------------------------
(* Assembler: assembler.rs *)

Instr(op, res, reg, ret, imm) ==
    [op |-> op, res |-> res, reg |-> reg, ret |-> ret, imm |-> imm]

AddImmediate(res, reg, imm)  == Instr("AddImmediate", res, reg, ZERO, imm)
AddUnsigned(res, reg, ret)   == Instr("AddUnsigned", res, reg, ret, 0)
LoadUpperImmediate(res, imm) == Instr("LoadUpperImmediate", res, ZERO, ZERO, imm)
OrImmediate(res, reg, imm)   == Instr("OrImmediate", res, reg, ZERO, imm)
SystemCall                   == Instr("SystemCall", ZERO, ZERO, ZERO, 0)

Symbol(address, segment) == [address |-> address, segment |-> segment]

\* vec![0; MEMORY_SIZE]: the length and the bytes written so far; an index
\* below len that was never written holds 0
NewMemory == [len |-> MEMORY_SIZE, bytes |-> <<>>]

MemAt(m, i) == IF i \in DOMAIN m.bytes THEN m.bytes[i] ELSE 0

Max(a, b) == IF a >= b THEN a ELSE b

\* a copy that lands one byte late
MemWriteShifted(m, start, bytes) ==
    [len   |-> Max(m.len, start + 1 + Len(bytes)),
     bytes |-> [i \in (start + 1)..(start + Len(bytes)) |-> bytes[i - start]]
               @@ m.bytes]

\* a copy that loses its last byte
MemWriteClipped(m, start, bytes) ==
    [len   |-> Max(m.len, start + Len(bytes)),
     bytes |-> [i \in start..(start + Len(bytes) - 2) |-> bytes[i - start + 1]]
               @@ m.bytes]

\* resize(max(len, end), 0) and memory[start..end].copy_from_slice(bytes)
MemWrite(m, start, bytes) ==
    [len   |-> Max(m.len, start + Len(bytes)),
     bytes |-> [i \in start..(start + Len(bytes) - 1) |-> bytes[i - start + 1]]
               @@ m.bytes]

\* the assembler as one value
AsmState == [symbols |-> symbols, data_addr |-> data_addr, text_addr |-> text_addr,
             entry_point |-> entry_point, memory |-> memory,
             text_lines |-> text_lines, current_segment |-> current_segment]

\* Assembler::new
NewAssembler == [symbols |-> <<>>, data_addr |-> BASE_DATA_ADDR,
                 text_addr |-> BASE_TEXT_ADDR, entry_point |-> <<>>,
                 memory |-> NewMemory, text_lines |-> <<>>,
                 current_segment |-> "Text"]

Ok(a) == [err |-> "", asm |-> a]
Err(e, a) == [err |-> e, asm |-> a]

\* the bytes of a string; CString::from_str fails on an interior NUL
StrBytes(value) == [i \in 1..Len(value) |-> Ord(value[i])]
HasNul(bytes) == \E i \in 1..Len(bytes) : bytes[i] = 0

\* a .byte loop that never looks at the range of a value
RECURSIVE byte_loop_unchecked(_, _)
byte_loop_unchecked(a, tokens) ==
    IF tokens = <<>> \/ tokens[1].type # "Number" THEN [err |-> "", asm |-> a]
    ELSE byte_loop_unchecked(
            [a EXCEPT !.memory = MemWrite(a.memory, a.data_addr - BASE_DATA_ADDR,
                                          << tokens[1].value % 256 >>),
                      !.data_addr = a.data_addr + 1],
            Tail(tokens))

\* the .byte loop: one Number after another until another token or the end
RECURSIVE byte_loop(_, _)
byte_loop(a, tokens) ==
    IF tokens = <<>> \/ tokens[1].type # "Number" THEN Ok(a)
    ELSE LET value == tokens[1].value IN
         IF value < -128 \/ value > 255 THEN Err("InvalidByteValue", a)
         ELSE LET byte_val == value % 256
                  offset   == a.data_addr - BASE_DATA_ADDR
              IN  byte_loop([a EXCEPT !.memory = MemWrite(a.memory, offset, <<byte_val>>),
                                      !.data_addr = a.data_addr + 1],
                            Tail(tokens))

\* handle_directive; tokens are those after the directive
handle_directive(a, kind, tokens) ==
    CASE kind = "DataDirective" -> Ok([a EXCEPT !.current_segment = "Data"])
      [] kind = "TextDirective" -> Ok([a EXCEPT !.current_segment = "Text"])
      [] kind = "GlobalDirective" ->
            IF tokens # <<>> /\ tokens[1].type = "Label" /\ ~tokens[1].decl
            THEN Ok([a EXCEPT !.entry_point = <<tokens[1].text>>])
            ELSE Err("EntrypointMissing", a)
      [] kind \in {"AsciizDirective", "AsciiDirective"} ->
            IF tokens # <<>> /\ tokens[1].type = "Text"
            THEN IF HasNul(StrBytes(tokens[1].text)) THEN Err("InvalidString", a)
                 ELSE LET bytes == IF kind = "AsciizDirective"
                                   THEN Append(StrBytes(tokens[1].text), 0)
                                   ELSE StrBytes(tokens[1].text)
                          start_offset == a.data_addr - BASE_DATA_ADDR
                      IN  Ok([a EXCEPT !.memory = MemWrite(a.memory, start_offset, bytes),
                                       !.data_addr = a.data_addr + Len(bytes)])
            ELSE Err("InvalidToken", a)
      [] kind = "ByteDirective" -> byte_loop(a, tokens)
      [] OTHER -> Err("UnknownDirective", a)

\* parse_register / parse_immediate / parse_label on the token at position i
parse_register(tokens, i) ==
    IF i <= Len(tokens) /\ tokens[i].type = "Register"
    THEN IF RegisterFromStr(tokens[i].text).ok
         THEN [err |-> "", val |-> RegisterFromStr(tokens[i].text).reg]
         ELSE [err |-> "InvalidRegister", val |-> 0]
    ELSE [err |-> "InvalidInstruction", val |-> 0]

parse_immediate(tokens, i) ==
    IF i <= Len(tokens) /\ tokens[i].type = "Number"
    THEN [err |-> "", val |-> tokens[i].value]
    ELSE [err |-> "InvalidInstruction", val |-> 0]

parse_label(tokens, i) ==
    IF i <= Len(tokens) /\ tokens[i].type = "Label" /\ ~tokens[i].decl
    THEN [err |-> "", val |-> tokens[i].text]
    ELSE [err |-> "InvalidLabel", val |-> <<>>]

Expanded(out) == [err |-> "", out |-> out]
Failed(e) == [err |-> e, out |-> <<>>]

\* the `?` chain over up to three operands: the first error, else f of the values
FirstErr(ps) ==
    LET bad == {i \in 1..Len(ps) : ps[i].err # ""}
    IN  IF bad = {} THEN "" ELSE ps[CHOOSE i \in bad : \A j \in bad : i <= j].err

\* the three cases of `li`
expand_li(res, imm) ==
    IF imm >= -32768 /\ imm <= 32767
    THEN << AddImmediate(res, ZERO, imm) >>
    ELSE IF imm % TwoTo16 = 0
    THEN << LoadUpperImmediate(res, imm \div TwoTo16) >>
    ELSE LET high == (imm \div TwoTo16) + (IF (imm % TwoTo16) >= 32768 THEN 1 ELSE 0)
             low  == imm % TwoTo16
         IN  << LoadUpperImmediate(res, high), AddImmediate(res, res, low) >>

\* an expansion that carries into the upper half when bit 15 of the low half
\* is set
expand_la_carrying(res, address) ==
    LET high == (address \div TwoTo16) + (IF address % TwoTo16 >= 32768 THEN 1 ELSE 0)
        low  == address % TwoTo16
    IN  << LoadUpperImmediate(res, high), OrImmediate(res, res, low) >>

\* the two instructions of `la` for a symbol's address
expand_la(res, address) ==
    LET high == address \div TwoTo16
        low  == address % TwoTo16
    IN  << LoadUpperImmediate(res, high), OrImmediate(res, res, low) >>

\* a lookup that answers the data base for a name it does not know
symbol_address_defaulting(a, label) ==
    IF label \in DOMAIN a.symbols
    THEN [err |-> "", val |-> a.symbols[label].address]
    ELSE [err |-> "", val |-> BASE_DATA_ADDR]

\* self.symbols.get(&label).ok_or(InvalidLabel)?.address
symbol_address(a, label) ==
    IF label \in DOMAIN a.symbols
    THEN [err |-> "", val |-> a.symbols[label].address]
    ELSE [err |-> "InvalidLabel", val |-> 0]

\* expand_instruction on the whole token-line
expand_instruction(a, tokens) ==
    IF tokens = <<>> \/ tokens[1].type # "Operator" THEN Failed("InvalidInstruction")
    ELSE LET value == tokens[1].text
             r2 == parse_register(tokens, 2)
             r3 == parse_register(tokens, 3)
             r4 == parse_register(tokens, 4)
             i3 == parse_immediate(tokens, 3)
             i4 == parse_immediate(tokens, 4)
             l3 == parse_label(tokens, 3)
         IN  CASE value = <<"s","y","s","c","a","l","l">> -> Expanded(<< SystemCall >>)
               [] value = <<"a","d","d","i">> ->
                    IF FirstErr(<<r2, r3, i4>>) # "" THEN Failed(FirstErr(<<r2, r3, i4>>))
                    ELSE Expanded(<< AddImmediate(r2.val, r3.val, i4.val) >>)
               [] value = <<"a","d","d","u">> ->
                    IF FirstErr(<<r2, r3, r4>>) # "" THEN Failed(FirstErr(<<r2, r3, r4>>))
                    ELSE Expanded(<< AddUnsigned(r2.val, r3.val, r4.val) >>)
               [] value = <<"l","u","i">> ->
                    IF FirstErr(<<r2, i3>>) # "" THEN Failed(FirstErr(<<r2, i3>>))
                    ELSE Expanded(<< LoadUpperImmediate(r2.val, i3.val) >>)
               [] value = <<"o","r","i">> ->
                    IF FirstErr(<<r2, r3, i4>>) # "" THEN Failed(FirstErr(<<r2, r3, i4>>))
                    ELSE Expanded(<< OrImmediate(r2.val, r3.val, i4.val) >>)
               [] value = <<"m","o","v","e">> ->
                    IF FirstErr(<<r2, r3>>) # "" THEN Failed(FirstErr(<<r2, r3>>))
                    ELSE Expanded(<< AddUnsigned(r2.val, r3.val, ZERO) >>)
               [] value = <<"l","i">> ->
                    IF FirstErr(<<r2, i3>>) # "" THEN Failed(FirstErr(<<r2, i3>>))
                    ELSE Expanded(expand_li(r2.val, i3.val))
               [] value = <<"l","a">> ->
                    IF FirstErr(<<r2, l3>>) # "" THEN Failed(FirstErr(<<r2, l3>>))
                    ELSE IF symbol_address(a, l3.val).err # ""
                    THEN Failed(symbol_address(a, l3.val).err)
                    ELSE Expanded(expand_la(r2.val, symbol_address(a, l3.val).val))
               [] OTHER -> Failed("InvalidInstruction")

\* a label step that records the text cursor in either segment
declare_label_text_cursor(a, line_tokens) ==
    IF line_tokens # <<>> /\ line_tokens[1].type = "Label" /\ line_tokens[1].decl
    THEN [a EXCEPT !.symbols = (line_tokens[1].text :> Symbol(a.text_addr, a.current_segment))
                                   @@ a.symbols]
    ELSE a

\* the label step at the head of one iteration of assemble()'s loop
declare_label(a, line_tokens) ==
    IF line_tokens # <<>> /\ line_tokens[1].type = "Label" /\ line_tokens[1].decl
    THEN LET addr == IF a.current_segment = "Data" THEN a.data_addr ELSE a.text_addr
         IN  [a EXCEPT !.symbols = (line_tokens[1].text :> Symbol(addr, a.current_segment))
                                   @@ a.symbols]
    ELSE a

\* one iteration of assemble()'s loop over a token-line
assemble_line(a0, line_tokens) ==
    LET labelled == line_tokens # <<>> /\ line_tokens[1].type = "Label" /\ line_tokens[1].decl
        a        == declare_label(a0, line_tokens)
        tokens   == IF labelled THEN Tail(line_tokens) ELSE line_tokens
    IN  IF tokens = <<>> THEN Ok(a)
        ELSE IF tokens[1].type = "Directive"
        THEN handle_directive(a, tokens[1].kind, Tail(tokens))
        ELSE IF tokens[1].type = "Operator"
        THEN LET expanded == expand_instruction(a, line_tokens)
             IN  IF expanded.err # "" THEN Err(expanded.err, a)
                 ELSE Ok([a EXCEPT !.text_lines = a.text_lines \o expanded.out])
        ELSE Err("InvalidToken", a)

\* an entry that is always the text base
get_entry_point_text_base(a) == BASE_TEXT_ADDR

\* get_entry_point
get_entry_point(a) ==
    IF a.entry_point # <<>> /\ a.entry_point[1] \in DOMAIN a.symbols
    THEN a.symbols[a.entry_point[1]].address
    ELSE BASE_TEXT_ADDR

\* get_instructions: enumerate text_lines and collect (addr, inst) into a map
RECURSIVE collect_instructions(_, _, _)
collect_instructions(lines, i, map) ==
    IF i >= Len(lines) THEN map
    ELSE LET addr == BASE_TEXT_ADDR + (i * 4)
         IN  collect_instructions(lines, i + 1, (addr :> lines[i + 1]) @@ map)

\* an image keyed by the instruction's index instead of its byte address
get_instructions_unscaled(a) ==
    [addr \in {BASE_TEXT_ADDR + i : i \in 0..(Len(a.text_lines) - 1)} |->
        a.text_lines[(addr - BASE_TEXT_ADDR) + 1]]

get_instructions(a) == collect_instructions(a.text_lines, 0, <<>>)

\* take_memory
take_memory(a) == a.memory

-----------------------------------------------------------------------------
(* Simulator: simulator.rs *)

NoError == [kind |-> "", value |-> WZero]
SimError(kind, value) == [kind |-> kind, value |-> value]

\* self.instructions.get(&self.pc): <<instruction>> for Some, <<>> for None
fetch_or_first(image, addr) ==
    IF addr \in DOMAIN image THEN << image[addr] >>
    ELSE IF BASE_TEXT_ADDR \in DOMAIN image THEN << image[BASE_TEXT_ADDR] >>
    ELSE << >>

fetch(image, addr) == IF addr \in DOMAIN image THEN << image[addr] >> ELSE << >>

\* self.pc += 4
next_pc_stuck(addr) == addr

next_pc(addr) == addr + 4

\* an execution that also leaves its result in $at
execute_clobbering_at(file, instruction) ==
    LET value == CASE instruction.op = "AddImmediate" ->
                        WrappingAdd(RegGet(file, instruction.reg), ToWord(instruction.imm))
                   [] instruction.op = "LoadUpperImmediate" ->
                        Shl16(ToWord(instruction.imm))
                   [] instruction.op = "OrImmediate" ->
                        BitOr(RegGet(file, instruction.reg), ToWord(instruction.imm))
                   [] instruction.op = "AddUnsigned" ->
                        WrappingAdd(RegGet(file, instruction.reg),
                                    RegGet(file, instruction.ret))
    IN  RegSet(RegSet(file, instruction.res, value), 1, value)

\* execute_instruction for the four register instructions
execute_register_instruction(file, instruction) ==
    CASE instruction.op = "AddImmediate" ->
            RegSet(file, instruction.res,
                   WrappingAdd(RegGet(file, instruction.reg), ToWord(instruction.imm)))
      [] instruction.op = "LoadUpperImmediate" ->
            RegSet(file, instruction.res, Shl16(ToWord(instruction.imm)))
      [] instruction.op = "OrImmediate" ->
            RegSet(file, instruction.res,
                   BitOr(RegGet(file, instruction.reg), ToWord(instruction.imm)))
      [] instruction.op = "AddUnsigned" ->
            RegSet(file, instruction.res,
                   WrappingAdd(RegGet(file, instruction.reg), RegGet(file, instruction.ret)))

\* memory.get(&i): <<byte>> for Some, <<>> for None
MemGet(m, offset) ==
    IF offset.hi < 32768 /\ offset.hi * TwoTo16 + offset.lo < m.len
    THEN << MemAt(m, offset.hi * TwoTo16 + offset.lo) >>
    ELSE << >>

\* the loop of syscall 4: bytes from offset up to the first 0 or missing byte
RECURSIVE read_string(_, _, _)
read_string(m, i, bytes) ==
    LET got == MemGet(m, i) IN
    IF got # <<>> /\ got[1] # 0
    THEN read_string(m, WrappingAdd(i, Word(0, 1)), Append(bytes, got[1]))
    ELSE bytes

IsCont(bytes, i, lo, hi) == i <= Len(bytes) /\ bytes[i] >= lo /\ bytes[i] <= hi
REPLACEMENT == << 239, 191, 189 >>

\* String::from_utf8_lossy, as UTF-8 bytes: a well-formed sequence is kept,
\* every maximal ill-formed prefix becomes U+FFFD
RECURSIVE from_utf8_lossy(_, _, _)
from_utf8_lossy(bytes, i, out) ==
    IF i > Len(bytes) THEN out
    ELSE LET b == bytes[i]
             lo2 == CASE b = 224 -> 160 [] b = 240 -> 144 [] OTHER -> 128
             hi2 == CASE b = 237 -> 159 [] b = 244 -> 143 [] OTHER -> 191
             width == CASE b < 128 -> 1
                        [] b >= 194 /\ b <= 223 -> 2
                        [] b >= 224 /\ b <= 239 -> 3
                        [] b >= 240 /\ b <= 244 -> 4
                        [] OTHER -> 0
             good == IF width <= 1 THEN width
                     ELSE IF ~IsCont(bytes, i + 1, lo2, hi2) THEN 1
                     ELSE IF width = 2 THEN 2
                     ELSE IF ~IsCont(bytes, i + 2, 128, 191) THEN 2
                     ELSE IF width = 3 THEN 3
                     ELSE IF ~IsCont(bytes, i + 3, 128, 191) THEN 3
                     ELSE 4
         IN  IF width = 0 THEN from_utf8_lossy(bytes, i + 1, out \o REPLACEMENT)
             ELSE IF good = width
             THEN from_utf8_lossy(bytes, i + width, out \o SubSeq(bytes, i, i + width - 1))
             ELSE from_utf8_lossy(bytes, i + good, out \o REPLACEMENT)

\* format!("{}", u32): the decimal digits, as bytes
RECURSIVE DecimalBytes(_)
DecimalBytes(w) ==
    LET t     == (w.hi % 10) * TwoTo16 + w.lo
        q     == Word(w.hi \div 10, t \div 10)
        digit == << 48 + (t % 10) >>
    IN  IF q = WZero THEN digit ELSE DecimalBytes(q) \o digit

\* str::trim
RECURSIVE Trim(_)
Trim(s) ==
    IF s # <<>> /\ (IsWhitespace(s[1]) \/ s[1] = "\n") THEN Trim(Tail(s))
    ELSE IF s # <<>> /\ (IsWhitespace(s[Len(s)]) \/ s[Len(s)] = "\n")
    THEN Trim(SubSeq(s, 1, Len(s) - 1))
    ELSE s

\* str::parse::<u32>
RECURSIVE ParseU32Digits(_, _, _)
ParseU32Digits(s, i, acc) ==
    IF i > Len(s) THEN [ok |-> TRUE, value |-> acc]
    ELSE IF ~IsDigit(s[i]) THEN [ok |-> FALSE, value |-> WZero]
    ELSE LET l == acc.lo * 10 + DigitVal(s[i])
             h == acc.hi * 10 + (l \div TwoTo16)
         IN  IF h >= TwoTo16 THEN [ok |-> FALSE, value |-> WZero]
             ELSE ParseU32Digits(s, i + 1, Word(h, l % TwoTo16))

ParseU32(s) ==
    LET body == IF s # <<>> /\ s[1] = "+" THEN Tail(s) ELSE s
    IN  IF body = <<>> THEN [ok |-> FALSE, value |-> WZero]
        ELSE ParseU32Digits(body, 1, WZero)

SyscallResult(err, file, out, panic) ==
    [err |-> err, registers |-> file, stdout |-> out, panic |-> panic]

\* handle_syscall; wraps says whether u32 subtraction wraps (a release build)
\* or panics (a debug build), input is the line read from stdin, clock the
\* reading of the system clock
handle_syscall(file, m, out, wraps, input, clock) ==
    LET v0 == RegGet(file, V0)
        a0 == RegGet(file, A0)
        base == ToWord(BASE_DATA_ADDR)
    IN  CASE v0 = Word(0, 1) ->
                SyscallResult(NoError, file, out \o DecimalBytes(a0), FALSE)
          [] v0 = Word(0, 4) ->
                IF WLess(a0, base) /\ ~wraps
                THEN SyscallResult(NoError, file, out, TRUE)
                ELSE LET offset == WrappingAdd(a0, ToWord(-BASE_DATA_ADDR))
                         bytes  == read_string(m, offset, <<>>)
                     IN  SyscallResult(NoError, file,
                                       out \o from_utf8_lossy(bytes, 1, <<>>), FALSE)
          [] v0 = Word(0, 5) ->
                IF ParseU32(Trim(input)).ok
                THEN SyscallResult(NoError, RegSet(file, V0, ParseU32(Trim(input)).value),
                                   out, FALSE)
                ELSE SyscallResult(SimError("WrongInputType", WZero), file, out, FALSE)
          [] v0 = Word(0, 10) ->
                SyscallResult(SimError("Exit", WZero), file, out, FALSE)
          [] v0 = Word(0, 17) ->
                SyscallResult(SimError("Exit", a0), file, out, FALSE)
          [] v0 = Word(0, 30) ->
                IF clock.ok
                THEN SyscallResult(NoError,
                                   RegSet(RegSet(file, A0, clock.low), A1, clock.high),
                                   out, FALSE)
                ELSE SyscallResult(SimError("InvalidSystemTime", WZero), file, out, FALSE)
          [] OTHER ->
                SyscallResult(SimError("UnknownSyscall", v0), file, out, FALSE)

-----------------------------------------------------------------------------
(* Encoding: instructions.rs *)

\* `|` on u32 words below 2^31, `<<` and `>>` by n bits
IntOr(a, b) == Or16(a, b, 32)
Shl(x, n) == x * 2^n
Shr(x, n) == x \div 2^n

\* encode_format::r_format
r_format(opcode, funct, rs, rt, rd) ==
    LET shamt == 0
    IN  IntOr(IntOr(IntOr(IntOr(IntOr(Shl(opcode, 26), Shl(rs, 21)), Shl(rt, 16)),
                          Shl(rd, 11)), Shl(shamt, 6)), funct)

\* encode_format::r_format_syscall
r_format_syscall(opcode, funct) == IntOr(Shl(opcode, 26), funct)

\* an I-format word with the two register fields in each other's place
i_format_swapped(opcode, rs, rt, imm) ==
    IntOr(IntOr(IntOr(Shl(opcode, 26), Shl(rt, 21)), Shl(rs, 16)), imm % TwoTo16)

\* encode_format::i_format; imm is an i16, `imm as u16` its low 16 bits
i_format(opcode, rs, rt, imm) ==
    IntOr(IntOr(IntOr(Shl(opcode, 26), Shl(rs, 21)), Shl(rt, 16)), imm % TwoTo16)

\* Instruction::encode
encode(instruction) ==
    CASE instruction.op = "AddImmediate" ->
            i_format(9, instruction.reg, instruction.res, instruction.imm)
      [] instruction.op = "AddUnsigned" ->
            r_format(0, 33, instruction.reg, instruction.ret, instruction.res)
      [] instruction.op = "LoadUpperImmediate" ->
            i_format(15, ZERO, instruction.res, instruction.imm)
      [] instruction.op = "OrImmediate" ->
            i_format(13, instruction.reg, instruction.res, instruction.imm)
      [] instruction.op = "SystemCall" ->
            r_format_syscall(0, 12)

\* Register::try_from(u8): <<register>> for Ok, <<>> for Err
RegisterTryFrom(n) == IF n \in 0..31 THEN << n >> ELSE << >>

\* the Option<Instruction> of a decoder
DecodedNone == [done |-> TRUE, some |-> FALSE, instr |-> SystemCall]
DecodedSome(instruction) == [done |-> TRUE, some |-> TRUE, instr |-> instruction]
NotDecoded == [done |-> FALSE, some |-> FALSE, instr |-> SystemCall]

\* decode_r_format!: the one-name arm, and the arm with three fields
\* (f1: rd, f2: rs, f3: rt)
decode_r_format(word, name) ==
    IF name = "SystemCall" THEN DecodedSome(SystemCall)
    ELSE LET rs == RegisterTryFrom(Shr(word, 21) % 32)
             rt == RegisterTryFrom(Shr(word, 16) % 32)
             rd == RegisterTryFrom(Shr(word, 11) % 32)
         IN  IF rs = <<>> \/ rt = <<>> \/ rd = <<>> THEN DecodedNone
             ELSE DecodedSome(Instr(name, rd[1], rs[1], rt[1], 0))

\* decode_i_or_j_format!: (f1: rt, f2: rs, f3: imm), imm = (word & 0xFFFF) as i16
decode_i_or_j_format(word, name) ==
    LET rs  == RegisterTryFrom(Shr(word, 21) % 32)
        rt  == RegisterTryFrom(Shr(word, 16) % 32)
        low == word % TwoTo16
        imm == IF low >= 32768 THEN low - TwoTo16 ELSE low
    IN  IF rs = <<>> \/ rt = <<>> THEN DecodedNone
        ELSE DecodedSome(Instr(name, rt[1], rs[1], ZERO, imm))

\* the decoder of the format an instruction is declared with
decode(word, name) ==
    IF name \in { "AddUnsigned", "SystemCall" } THEN decode_r_format(word, name)
    ELSE decode_i_or_j_format(word, name)

-----------------------------------------------------------------------------
(* Inputs: source files, stdin lines, clock readings *)

MaxLines == 3

T0 == 8

RegName(r) == RegisterNames[r + 1]

\* the decimal literal of an i32
RECURSIVE DecChars(_)
DecChars(n) ==
    IF n < 0
    THEN LET d == (10 - (n % 10)) % 10
             rest == (n + d) \div 10
         IN  (IF rest = 0 THEN <<"-">> ELSE DecChars(rest)) \o << Digits[d + 1] >>
    ELSE (IF n >= 10 THEN DecChars(n \div 10) ELSE <<>>) \o << Digits[(n % 10) + 1] >>

RECURSIVE CommaList(_)
CommaList(items) ==
    IF Len(items) = 0 THEN <<>>
    ELSE IF Len(items) = 1 THEN items[1]
    ELSE items[1] \o <<",", " ">> \o CommaList(Tail(items))

Stmt(mnemonic, operands) == mnemonic \o <<" ">> \o CommaList(operands)
Quoted(text) == <<"\"">> \o text \o <<"\"">>

LiLine(rd, n)    == Stmt(<<"l","i">>, << RegName(rd), DecChars(n) >>)
LaLine(rd, name) == Stmt(<<"l","a">>, << RegName(rd), name >>)
AddiLine(rd, rs, n) == Stmt(<<"a","d","d","i">>, << RegName(rd), RegName(rs), DecChars(n) >>)
AdduLine(rd, rs, rt) == Stmt(<<"a","d","d","u">>, << RegName(rd), RegName(rs), RegName(rt) >>)
SyscallLine      == <<"s","y","s","c","a","l","l">>
DataLine         == <<".","d","a","t","a">>
Labelled(name, rest) == name \o <<":">> \o (IF rest = <<>> THEN <<>> ELSE <<" ">> \o rest)
AsciizStmt(text) == <<".","a","s","c","i","i","z"," ">> \o Quoted(text)
AsciiStmt(text)  == <<".","a","s","c","i","i"," ">> \o Quoted(text)
ByteStmt(values) == <<".","b","y","t","e"," ">> \o CommaList([i \in 1..Len(values) |-> DecChars(values[i])])

msg  == <<"m","s","g">>
main == <<"m","a","i","n">>
end  == <<"e","n","d">>

other == <<"z">>

\* the lines short programs are built from
GeneralLines ==
    { DataLine,
      Labelled(msg, AsciizStmt(<<"H","i">>)),
      Labelled(end, <<>>),
      Labelled(main, LiLine(V0, 1)),
      AddiLine(T0, ZERO, 5),
      AddiLine(ZERO, T0, 7),
      LaLine(A0, msg),
      LaLine(A0, end),
      SyscallLine,
      LiLine(V0, 17),
      LiLine(A0, 98305),
      <<".","w","o","r","d"," ","1">>,
      <<".","g","l","o","b","l"," ","e","n","d">> }

RECURSIVE SeqsUpTo(_, _)
SeqsUpTo(S, n) ==
    IF n = 0 THEN { <<>> }
    ELSE LET shorter == SeqsUpTo(S, n - 1)
         IN  shorter \cup { Append(p, l) : p \in shorter, l \in S }

\* every file of at most MaxLines general lines
ShortPrograms == SeqsUpTo(GeneralLines, MaxLines)

\* `li rd, N` alone and after another load of the same register
LiValues ==
    { 0, 1, -1, 32767, -32768, 32768, -32769, 65536, -65536, 98305, 305419896,
      305430528, 2147450880, I32_MAX, I32_MIN }
LiRegs == { V0, T0, 31 }
LiPrograms ==
    { << LiLine(rd, n) >> : rd \in LiRegs, n \in LiValues }
    \cup { << LiLine(rd, m), LiLine(rd, n) >> : rd \in LiRegs, m \in {-1, 98305}, n \in LiValues }

\* syscall 17 with an exit value, after some history
ExitValues == { 0, 7, 255, 256, 65536, -1, I32_MIN }
Histories ==
    { <<>>,
      << AddiLine(T0, ZERO, 5), AdduLine(A1, T0, T0) >>,
      << <<"#"," ","x">>, LiLine(V0, 1), LiLine(A0, 42), SyscallLine >> }
ExitPrograms ==
    { h \o << LiLine(V0, 17), LiLine(A0, k), SyscallLine >> : h \in Histories, k \in ExitValues }

\* print_str on a string laid down by .asciiz, with data before and after it
Strings ==
    { <<>>, <<"H","i">>, <<"a",","," ","b">>, <<"x","\\","n","y","\\","t">>,
      <<"q","\\","\"","q">>, <<"a","\\","\\">> }
Paddings ==
    { <<>>, << ByteStmt(<<65, 255, -1>>) >>, << Labelled(other, AsciiStmt(<<"a","b">>)) >> }
PrintPrograms ==
    { << DataLine >> \o before
        \o << Labelled(msg, AsciizStmt(str)) >> \o after
        \o << LiLine(V0, 4), LaLine(A0, msg), SyscallLine >>
      : before \in Paddings, after \in Paddings, str \in Strings }

\* the other syscalls
SyscallPrograms ==
    { << LiLine(V0, n), LiLine(A0, k), SyscallLine, SyscallLine >>
      : n \in {1, 4, 5, 10, 30}, k \in {0, 42, -1} }

\* a file with a lone quote, and one with an unknown directive
BrokenPrograms ==
    { << AddiLine(T0, ZERO, 5), <<".","a","s","c","i","i"," ","\"">> >>,
      << AddiLine(T0, ZERO, 5), <<".","h","a","l","f"," ","1">> >> }

LuiLine(rd, n)     == Stmt(<<"l","u","i">>, << RegName(rd), DecChars(n) >>)
OriLine(rd, rs, n) == Stmt(<<"o","r","i">>, << RegName(rd), RegName(rs), DecChars(n) >>)

\* addi, lui and ori with immediates inside and outside the signed 16-bit
\* range, the ori after a load of its source register
ImmValues == { -32769, -32768, -1, 0, 1, 32767, 32768, 40000, 65535, 65536 }
OriSources == { 0, 5, 4660, -1, 65536, 305419896 }
ImmPrograms ==
    { << AddiLine(T0, ZERO, n) >> : n \in ImmValues }
    \cup { << LuiLine(T0, n) >> : n \in ImmValues }
    \cup { << LiLine(T0, k), OriLine(V0, T0, n) >> : k \in OriSources, n \in ImmValues }

GloblLine(name) == <<".","g","l","o","b","l"," ">> \o name

\* .globl before and after the label it names, twice, and naming no label
EntryPrograms ==
    { << GloblLine(a), DataLine, ByteStmt(<<1, 2>>), Labelled(msg, ByteStmt(<<3>>)),
         Labelled(end, <<>>), <<".","t","e","x","t">>, LiLine(V0, 1) >> \o tail
      : a \in { msg, end, other }, tail \in { <<>>, << GloblLine(end) >>, << GloblLine(other) >> } }
    \cup { << LiLine(V0, 1), Labelled(main, <<>>), LiLine(A0, 3), GloblLine(main) >> }

\* .byte with values inside and outside -128..255, alone, after .data and
\* after a string, and the three data directives one after another
ByteValues == { -129, -128, -1, 0, 65, 255, 256 }
ByteLists ==
    { << v >> : v \in ByteValues }
    \cup { << v, w >> : v \in ByteValues, w \in {-128, 200, 256} }
    \cup { << 1, -2, 255, 300, 4 >> }
BytePrograms ==
    { before \o << ByteStmt(vs) >> \o after
      : before \in { <<>>, << DataLine >>, << AsciizStmt(<<"H","i">>) >> },
        after \in { <<>>, << AsciiStmt(<<"a",","," ","b">>), ByteStmt(<<7>>) >> },
        vs \in ByteLists }

\* string literals with spaces, commas and escapes, the escaped quote also
\* before a space and before a comma
Literals ==
    Strings \cup { <<"a","\\","\""," ","b">>, <<"\\","\"",",","x">>,
                   <<"a"," ",","," ","\\","\\"," ","b">>, <<"\\","n",","," ","\\","t">> }
LiteralPrograms ==
    { << AsciizStmt(s) >> : s \in Literals }
    \cup { << DataLine, Labelled(msg, AsciiStmt(s)), ByteStmt(<<0>>),
              LiLine(V0, 4), LaLine(A0, msg), SyscallLine >> : s \in Literals }

Programs ==
    ShortPrograms \cup LiPrograms \cup ExitPrograms \cup PrintPrograms
    \cup SyscallPrograms \cup BrokenPrograms \cup ImmPrograms \cup BytePrograms
    \cup LiteralPrograms
    \cup EntryPrograms

StdinLines == { <<"7">>, <<" ","4","2","\n">>, <<"x">>, <<>> }

ClockReadings ==
    { [ok |-> TRUE, high |-> Word(0, 397), low |-> Word(51966, 47806)],
      [ok |-> FALSE, high |-> WZero, low |-> WZero] }

-----------------------------------------------------------------------------
(* main: main.rs *)

SetAsm(a) ==
    /\ symbols' = a.symbols
    /\ data_addr' = a.data_addr
    /\ text_addr' = a.text_addr
    /\ entry_point' = a.entry_point
    /\ memory' = a.memory
    /\ text_lines' = a.text_lines
    /\ current_segment' = a.current_segment

\* no instruction has been handed to encode()
CodecIdle ==
    /\ codec_instr = SystemCall
    /\ codec_word = <<>>
    /\ codec_decoded = NotDecoded

\* the program before main's first statement, on the file src
Constructed(src) ==
    /\ source = src
    /\ phase = "tokenize"
    /\ tokenized = <<>>
    /\ line_idx = 1
    /\ symbols = NewAssembler.symbols
    /\ data_addr = NewAssembler.data_addr
    /\ text_addr = NewAssembler.text_addr
    /\ entry_point = NewAssembler.entry_point
    /\ memory = NewAssembler.memory
    /\ text_lines = NewAssembler.text_lines
    /\ current_segment = NewAssembler.current_segment
    /\ asm_error = ""
    /\ instructions = <<>>
    /\ sim_memory = NewMemory
    /\ registers = RegFileDefault
    /\ pc = 0
    /\ sim_error = NoError
    /\ stdout = <<>>
    /\ notice = ""
    /\ exit_code = 0
    /\ steps = 0

Init ==
    /\ \E src \in Programs : Constructed(src)
    /\ CodecIdle

\* main returns after printing "Assembler Error": the process exit code is 0
AssemblerFailed(err) ==
    /\ asm_error' = err
    /\ notice' = "Assembler Error"
    /\ phase' = "exited"
    /\ exit_code' = 0

\* assemble() calls tokenize(&args.file) first
Tokenize ==
    /\ phase = "tokenize"
    /\ \E readable \in BOOLEAN :
         LET t == tokenize(source) IN
         IF ~readable
         THEN /\ AssemblerFailed("TokenizationFailed")
              /\ UNCHANGED << tokenized, line_idx >>
         ELSE IF t.result = "Panic"
         THEN /\ phase' = "exited"
              /\ notice' = "panic"
              /\ exit_code' = PANIC_EXIT_CODE
              /\ UNCHANGED << tokenized, line_idx, asm_error >>
         ELSE IF t.result # "Ok"
         THEN /\ AssemblerFailed("TokenizationFailed")
              /\ UNCHANGED << tokenized, line_idx >>
         ELSE /\ tokenized' = t.lines
              /\ line_idx' = 1
              /\ phase' = "assemble"
              /\ UNCHANGED << asm_error, notice, exit_code >>
    /\ UNCHANGED << source, asm_vars, sim_vars, steps, codec_vars >>

\* one iteration of the for loop of assemble()
AssembleLine ==
    /\ phase = "assemble"
    /\ line_idx <= Len(tokenized)
    /\ LET r == assemble_line(AsmState, tokenized[line_idx]) IN
         /\ SetAsm(r.asm)
         /\ IF r.err = ""
            THEN /\ line_idx' = line_idx + 1
                 /\ UNCHANGED << phase, asm_error, notice, exit_code >>
            ELSE /\ AssemblerFailed(r.err)
                 /\ UNCHANGED line_idx
    /\ UNCHANGED << source, tokenized, sim_vars, steps, codec_vars >>

\* assemble() returned Ok: take_memory, get_instructions, get_entry_point,
\* Simulator::new
Load ==
    /\ phase = "assemble"
    /\ line_idx > Len(tokenized)
    /\ sim_memory' = take_memory(AsmState)
    /\ instructions' = get_instructions(AsmState)
    /\ pc' = get_entry_point(AsmState)
    /\ registers' = RegFileDefault
    /\ phase' = "run"
    /\ UNCHANGED << source, tokenized, line_idx, asm_vars, asm_error, sim_error,
                    stdout, notice, exit_code, steps, codec_vars >>

\* a driver that forgets Exit's value
DriverExitDropsValue(err) ==
    /\ sim_error' = err
    /\ phase' = "exited"
    /\ exit_code' = 0
    /\ notice' = IF err.kind = "Exit" THEN "finished"
                 ELSE IF err.kind = "NoMoreInstructions" THEN "dropped off bottom"
                 ELSE "Simulator Error"

\* the match on step()'s error in main's loop, then process::exit
DriverExit(err) ==
    /\ sim_error' = err
    /\ phase' = "exited"
    /\ IF err.kind = "Exit"
       THEN exit_code' = ToI32(err.value) /\ notice' = "finished"
       ELSE IF err.kind = "NoMoreInstructions"
       THEN exit_code' = 0 /\ notice' = "dropped off bottom"
       ELSE exit_code' = 0 /\ notice' = "Simulator Error"

\* one turn of main's loop: simulator.step() and the handling of its result
Step ==
    /\ phase = "run"
    /\ steps' = steps + 1
    /\ IF fetch(instructions, pc) = <<>>
       THEN /\ DriverExit(SimError("NoMoreInstructions", WZero))
            /\ UNCHANGED << registers, pc, stdout >>
       ELSE LET instruction == fetch(instructions, pc)[1] IN
            IF instruction.op # "SystemCall"
            THEN /\ registers' = execute_register_instruction(registers, instruction)
                 /\ pc' = next_pc(pc)
                 /\ UNCHANGED << sim_error, stdout, phase, notice, exit_code >>
            ELSE \E wraps \in BOOLEAN, input \in StdinLines, clock \in ClockReadings :
                   LET r == handle_syscall(registers, sim_memory, stdout, wraps, input, clock)
                   IN  /\ registers' = r.registers
                       /\ stdout' = r.stdout
                       /\ IF r.panic
                          THEN /\ phase' = "exited"
                               /\ notice' = "panic"
                               /\ exit_code' = PANIC_EXIT_CODE
                               /\ UNCHANGED << pc, sim_error >>
                          ELSE IF r.err.kind # ""
                          THEN DriverExit(r.err) /\ UNCHANGED pc
                          ELSE /\ pc' = next_pc(pc)
                               /\ UNCHANGED << sim_error, phase, notice, exit_code >>
    /\ UNCHANGED << source, tokenized, line_idx, asm_vars, asm_error, instructions,
                    sim_memory, codec_vars >>

Next == Tokenize \/ AssembleLine \/ Load \/ Step

Spec == Init /\ [][Next]_vars

\* main's loop makes one more call of step()
StepCalled == phase = "run" /\ steps' = steps + 1

\* main's loop calls step() again and again until step() returns an error:
\* while the loop runs, the next call of step() is not put off for ever
FairSpec == Spec /\ WF_steps(StepCalled)

-----------------------------------------------------------------------------
(* encode() and the decoders, applied to one instruction *)

\* the instructions handed to encode(): every variant, with i16 immediates
CodecRegs == { ZERO, 1, T0, 31 }
CodecImms == { -32768, -4660, -1, 0, 1, 4660, 32767 }
CodecInstrs ==
    { AddImmediate(res, reg, imm) : res \in CodecRegs, reg \in CodecRegs, imm \in CodecImms }
    \cup { OrImmediate(res, reg, imm) : res \in CodecRegs, reg \in CodecRegs, imm \in CodecImms }
    \cup { LoadUpperImmediate(res, imm) : res \in CodecRegs, imm \in CodecImms }
    \cup { AddUnsigned(res, reg, ret) : res \in CodecRegs, reg \in CodecRegs, ret \in CodecRegs }
    \cup { SystemCall }

CodecInit ==
    /\ Constructed(<<>>)
    /\ codec_instr \in CodecInstrs
    /\ codec_word = <<>>
    /\ codec_decoded = NotDecoded

Encode ==
    /\ codec_word = <<>>
    /\ codec_word' = << encode(codec_instr) >>
    /\ UNCHANGED << program_vars, codec_instr, codec_decoded >>

Decode ==
    /\ codec_word # <<>>
    /\ ~codec_decoded.done
    /\ codec_decoded' = decode(codec_word[1], codec_instr.op)
    /\ UNCHANGED << program_vars, codec_instr, codec_word >>

CodecNext == Encode \/ Decode

CodecSpec == CodecInit /\ [][CodecNext]_vars

-----------------------------------------------------------------------------
(* `la` of a data label anywhere in the data segment *)

\* how far into the data segment the label lies
LaOffsets == { 0, 1, 32767, 32768, 32769, 40000, 65535, 65536, 98304, 131071 }
LaRegs == { V0, A0, T0, 31 }

\* assemble() part-way through a file: the data directives before the line
\* in hand have emitted offset + 1 zero bytes, the last of them at label msg,
\* and `.text` has been seen; what is left of the file is `la rd, msg`,
\* alone or after a load of all ones into rd
LaInit ==
    /\ \E offset \in LaOffsets, rd \in LaRegs :
       \E before \in { <<>>, << LiLine(rd, -1) >> } :
         /\ source = before \o << LaLine(rd, msg) >>
         /\ tokenized = tokenize(source).lines
         /\ symbols = (msg :> Symbol(BASE_DATA_ADDR + offset, "Data"))
         /\ data_addr = BASE_DATA_ADDR + offset + 1
         /\ memory = [len |-> Max(MEMORY_SIZE, offset + 1), bytes |-> <<>>]
    /\ phase = "assemble"
    /\ line_idx = 1
    /\ text_addr = BASE_TEXT_ADDR
    /\ entry_point = <<>>
    /\ text_lines = <<>>
    /\ current_segment = "Text"
    /\ asm_error = ""
    /\ instructions = <<>>
    /\ sim_memory = NewMemory
    /\ registers = RegFileDefault
    /\ pc = 0
    /\ sim_error = NoError
    /\ stdout = <<>>
    /\ notice = ""
    /\ exit_code = 0
    /\ steps = 0
    /\ CodecIdle

LaNext == AssembleLine \/ Load \/ Step

LaSpec == LaInit /\ [][LaNext]_vars

-----------------------------------------------------------------------------
(* Properties *)

\* the lines of the file that tokenize() keeps, in order
RECURSIVE KeptLines(_)
KeptLines(lines) ==
    IF lines = <<>> THEN <<>>
    ELSE IF StartsWith(lines[1], <<"#">>) THEN KeptLines(Tail(lines))
    ELSE << lines[1] >> \o KeptLines(Tail(lines))

\* the simulator is about to execute the instruction at pc
AtInstruction == phase = "run" /\ pc \in DOMAIN instructions
AtSyscall(n) ==
    /\ AtInstruction
    /\ instructions[pc].op = "SystemCall"
    /\ RegGet(registers, V0) = Word(0, n)

\* the assembler is about to process token-line line_idx
AtLine == phase = "assemble" /\ line_idx <= Len(tokenized)
HasLabelDecl(tokens) == tokens # <<>> /\ tokens[1].type = "Label" /\ tokens[1].decl

\* every instruction of the image has been executed from the text base
RanToEnd ==
    /\ phase = "run"
    /\ text_lines # <<>>
    /\ get_entry_point(AsmState) = BASE_TEXT_ADDR
    /\ pc = BASE_TEXT_ADDR + 4 * Len(text_lines)

\* C1: register 0 reads as 0 in every state, and the file's slot 0 is never
\* written, whatever instructions (also ones whose destination is $zero) ran.
C1_RegisterZeroReadsZero ==
    /\ RegGet(registers, ZERO) = WZero
    /\ registers[ZERO] = WZero

\* C1 witness: an addi whose destination is $zero and whose sum is not 0
\* has just been executed.
C1_Witness ==
    /\ phase = "run"
    /\ (pc - 4) \in DOMAIN instructions
    /\ instructions[pc - 4].op = "AddImmediate"
    /\ instructions[pc - 4].res = ZERO
    /\ WrappingAdd(RegGet(registers, instructions[pc - 4].reg),
                   ToWord(instructions[pc - 4].imm)) # WZero

\* C2: when the file's last line is `li rd, N` with rd not $zero and the
\* whole image has been executed, R[rd] is the 32-bit value N.
C2_LiLoadsExactly ==
    LET last == tokenize_line(source[Len(source)]) IN
    ( /\ source # <<>>
      /\ RanToEnd
      /\ Len(last) = 3
      /\ last[1] = OperatorTok(<<"l","i">>)
      /\ last[2].type = "Register"
      /\ RegisterFromStr(last[2].text).ok
      /\ RegisterFromStr(last[2].text).reg # ZERO
      /\ last[3].type = "Number" )
    => RegGet(registers, RegisterFromStr(last[2].text).reg) = ToWord(last[3].value)

\* C3: a label declared while the current segment is Text is recorded at
\* BASE_TEXT_ADDR + 4 * (instructions emitted so far).
C3_TextLabelIsNextInstruction ==
    [][ ( /\ AtLine
          /\ HasLabelDecl(tokenized[line_idx])
          /\ current_segment = "Text" )
        => ( /\ tokenized[line_idx][1].text \in DOMAIN symbols'
             /\ symbols'[tokenized[line_idx][1].text].address
                    = BASE_TEXT_ADDR + 4 * Len(text_lines) ) ]_vars

\* the `name: mnemonic operands` lines of the inputs: the name and the statement
LabelledStatements == { [name |-> main, stmt |-> LiLine(V0, 1)] }

\* C4: a line `name: mnemonic operands` is accepted: the mnemonic is an
\* Operator token, the label is recorded and the statement's expansion is
\* appended to the text image.
C4_LabelledInstructionAccepted ==
    [][ \A ls \in LabelledStatements :
          ( /\ AtLine
            /\ KeptLines(source)[line_idx] = Labelled(ls.name, ls.stmt) )
          => ( /\ tokenized[line_idx][2].type = "Operator"
               /\ asm_error' = ""
               /\ ls.name \in DOMAIN symbols'
               /\ text_lines' = text_lines
                      \o expand_instruction(AsmState, tokenize_line(ls.stmt)).out ) ]_vars

RuntimeErrors == { "UnknownSyscall", "WrongInputType", "IoError", "InvalidSystemTime",
                   "RegisterError" }

\* C5: a run that ends on an assembly error or on a runtime error has a
\* non-zero exit code.
C5_ErrorsExitNonZero ==
    ( /\ phase = "exited"
      /\ (asm_error # "" \/ sim_error.kind \in RuntimeErrors) )
    => exit_code # 0

\* C6: SystemCall with R[$v0] = 17 and R[$a0] = k returns Exit(k) and ends the
\* run with the exit code k (as the 32-bit value it is), whatever ran before.
C6_Exit2ReturnsA0 ==
    [][ AtSyscall(17)
        => ( /\ sim_error' = SimError("Exit", RegGet(registers, A0))
             /\ phase' = "exited"
             /\ ToWord(exit_code') = RegGet(registers, A0) ) ]_vars

\* C6 witness: a run ended by syscall 17 with k = 7 after earlier instructions
\* and an earlier syscall.
C6_Witness ==
    /\ phase = "exited"
    /\ RegGet(registers, V0) = Word(0, 17)
    /\ sim_error = SimError("Exit", Word(0, 7))
    /\ exit_code = 7
    /\ stdout # <<>>
    /\ pc > BASE_TEXT_ADDR + 8

\* the token-lines `L: .asciiz "S"`
IsAsciizAt(tokens) ==
    /\ Len(tokens) >= 3
    /\ HasLabelDecl(tokens)
    /\ tokens[2] = DirectiveTok("AsciizDirective")
    /\ tokens[3].type = "Text"

DeclaredOnce(name) ==
    Cardinality({n \in 1..Len(tokenized) :
                    HasLabelDecl(tokenized[n]) /\ tokenized[n][1].text = name}) = 1

\* C7: for a string S written by .asciiz at data label L, syscall 4 with
\* R[$a0] = L's address appends exactly the bytes of S to stdout.
C7_PrintStrPrintsAsciiz ==
    [][ \A n \in 1..Len(tokenized) :
          ( /\ AtSyscall(4)
            /\ IsAsciizAt(tokenized[n])
            /\ DeclaredOnce(tokenized[n][1].text)
            /\ symbols[tokenized[n][1].text].segment = "Data"
            /\ RegGet(registers, A0) = ToWord(symbols[tokenized[n][1].text].address) )
          => ( /\ stdout' = stdout \o StrBytes(tokenized[n][3].text)
               /\ pc' = pc + 4 ) ]_vars

\* C7 witness: print_str has printed a non-empty string that sits after other
\* data and before more data.
C7_Witness ==
    /\ phase = "run"
    /\ (pc - 4) \in DOMAIN instructions
    /\ instructions[pc - 4].op = "SystemCall"
    /\ RegGet(registers, V0) = Word(0, 4)
    /\ WLess(ToWord(BASE_DATA_ADDR), RegGet(registers, A0))
    /\ stdout = << 120, 10, 121, 9 >>
    /\ data_addr > BASE_DATA_ADDR + 7

\* C8: the text image handed to the simulator has exactly the keys
\* BASE_TEXT_ADDR + 4*i for 0 <= i < N, with instruction i at key i.
C8_TextImageKeys ==
    phase = "run"
    => /\ DOMAIN instructions
            = { BASE_TEXT_ADDR + 4 * i : i \in 0..(Len(text_lines) - 1) }
       /\ \A i \in 0..(Len(text_lines) - 1) :
            instructions[BASE_TEXT_ADDR + 4 * i] = text_lines[i + 1]

\* C8 witness: an image of at least three instructions is loaded.
C8_Witness == phase = "run" /\ Len(text_lines) >= 3 /\ instructions # <<>>

\* the token-lines `la rd, L` with a known register
IsLa(tokens) ==
    /\ Len(tokens) = 3
    /\ tokens[1] = OperatorTok(<<"l","a">>)
    /\ tokens[2].type = "Register"
    /\ RegisterFromStr(tokens[2].text).ok
    /\ tokens[3].type = "Label"
    /\ ~tokens[3].decl

\* C9: `la rd, L` with L defined in segment Text is rejected with
\* InvalidLabel and appends nothing.
C9_LaTextLabelRejected ==
    [][ ( /\ AtLine
          /\ IsLa(tokenized[line_idx])
          /\ tokenized[line_idx][3].text \in DOMAIN symbols
          /\ symbols[tokenized[line_idx][3].text].segment = "Text" )
        => ( /\ asm_error' = "InvalidLabel"
             /\ text_lines' = text_lines ) ]_vars

\* C10: `la rd, L` with L not declared on an earlier line fails assembly with
\* InvalidLabel and appends nothing to the text image.
C10_LaUndeclaredFails ==
    [][ ( /\ AtLine
          /\ IsLa(tokenized[line_idx])
          /\ tokenized[line_idx][3].text \notin DOMAIN symbols )
        => ( /\ asm_error' = "InvalidLabel"
             /\ phase' = "exited"
             /\ text_lines' = text_lines ) ]_vars

\* C10 witness: assembly stopped with InvalidLabel at an `la` whose label is
\* declared only on a later line, after an instruction had been emitted.
C10_Witness ==
    /\ phase = "exited"
    /\ asm_error = "InvalidLabel"
    /\ line_idx <= Len(tokenized)
    /\ IsLa(tokenized[line_idx])
    /\ \E n \in (line_idx + 1)..Len(tokenized) :
         /\ HasLabelDecl(tokenized[n])
         /\ tokenized[n][1].text = tokenized[line_idx][3].text
    /\ text_lines # <<>>


\* the token-lines `addi rd, rs, n`, `lui rd, n` and `ori rd, rs, n` with
\* known registers
IsIFormat(tokens) ==
    /\ tokens # <<>>
    /\ tokens[1].type = "Operator"
    /\ \/ /\ tokens[1].text \in { <<"a","d","d","i">>, <<"o","r","i">> }
          /\ Len(tokens) = 4
          /\ parse_register(tokens, 2).err = ""
          /\ parse_register(tokens, 3).err = ""
       \/ /\ tokens[1].text = <<"l","u","i">>
          /\ Len(tokens) = 3
          /\ parse_register(tokens, 2).err = ""
    /\ tokens[Len(tokens)].type = "Number"

\* C11: addi, lui or ori with an immediate outside [-32768, 32767] fails
\* assembly with InvalidImmediateValue and emits no instruction.
C11_ImmediateRangeChecked ==
    [][ ( /\ AtLine
          /\ IsIFormat(tokenized[line_idx])
          /\ LET n == tokenized[line_idx][Len(tokenized[line_idx])].value
             IN  n < -32768 \/ n > 32767 )
        => ( /\ asm_error' = "InvalidImmediateValue"
             /\ phase' = "exited"
             /\ text_lines' = text_lines ) ]_vars

\* C12: step() with pc not a key of the text image returns NoMoreInstructions
\* and leaves pc, every register and memory as they were.
C12_StepOffImage ==
    [][ (phase = "run" /\ pc \notin DOMAIN instructions)
        => ( /\ sim_error'.kind = "NoMoreInstructions"
             /\ pc' = pc
             /\ registers' = registers
             /\ sim_memory' = sim_memory
             /\ instructions' = instructions ) ]_vars

\* C12 witness: a run that executed instructions, wrote registers, and then
\* stepped off the end of its image.
C12_Witness ==
    /\ phase = "exited"
    /\ sim_error.kind = "NoMoreInstructions"
    /\ instructions # <<>>
    /\ pc = BASE_TEXT_ADDR + 4 * Len(text_lines)
    /\ registers # RegFileDefault

\* C13: each call of step() either succeeds, adding exactly 4 to pc, or ends
\* the run leaving pc alone; nothing else changes pc once the image is loaded;
\* and every run of an image of N instructions ends after at most N + 1 calls.
C13_RunTerminates ==
    /\ [][ ( phase = "run"
             => \/ phase' = "run" /\ pc' = pc + 4 /\ steps' = steps + 1
                \/ phase' = "exited" /\ pc' = pc /\ steps' = steps + 1 )
           /\ ( phase = "exited" => pc' = pc ) ]_vars
    /\ ( (phase = "run") ~> (phase = "exited" /\ steps <= Len(text_lines) + 1) )

\* C13 witness: a run of three or more instructions that ended on its
\* (N+1)-th call of step().
C13_Witness ==
    /\ phase = "exited"
    /\ Len(text_lines) >= 3
    /\ steps = Len(text_lines) + 1

\* the token-lines `.globl name`, with or without a label declaration in front
IsGlobl(tokens) ==
    LET rest == IF HasLabelDecl(tokens) THEN Tail(tokens) ELSE tokens
    IN  /\ Len(rest) >= 2
        /\ rest[1] = DirectiveTok("GlobalDirective")
        /\ rest[2].type = "Label"
        /\ ~rest[2].decl
GloblName(tokens) ==
    IF HasLabelDecl(tokens) THEN tokens[3].text ELSE tokens[2].text

\* the token-lines that carry `.globl name`, and the name of the last of them
GloblLines == { n \in 1..Len(tokenized) : IsGlobl(tokenized[n]) }
LastGlobl == GloblName(tokenized[CHOOSE n \in GloblLines : \A k \in GloblLines : k <= n])

\* C14: when assembly has succeeded, the simulator starts at the address the
\* symbol table holds for the label of the last `.globl`, wherever in the
\* file that label is declared, and at BASE_TEXT_ADDR when there is no
\* `.globl` or its label is declared nowhere.
C14_EntryResolvedAtEnd ==
    [][ (phase = "assemble" /\ phase' = "run")
        => pc' = IF GloblLines # {} /\ LastGlobl \in DOMAIN symbols
                 THEN symbols[LastGlobl].address
                 ELSE BASE_TEXT_ADDR ]_vars

\* C14 witness: the run starts at a data label that is declared after the
\* `.globl` line naming it, and is not at the text base or the data base.
C14_Witness ==
    /\ phase = "run"
    /\ steps = 0
    /\ GloblLines # {}
    /\ LastGlobl \in DOMAIN symbols
    /\ \E n \in 1..Len(tokenized) :
         /\ HasLabelDecl(tokenized[n])
         /\ tokenized[n][1].text = LastGlobl
         /\ \A g \in GloblLines : g < n
    /\ pc = symbols[LastGlobl].address
    /\ pc > BASE_DATA_ADDR

\* a token-line without its label declaration
Statement(tokens) == IF HasLabelDecl(tokens) THEN Tail(tokens) ELSE tokens

\* the token-lines `.byte n1, ..., nk` (k >= 1, nothing but numbers)
IsByteLine(tokens) ==
    /\ Len(tokens) >= 2
    /\ tokens[1] = DirectiveTok("ByteDirective")
    /\ \A i \in 2..Len(tokens) : tokens[i].type = "Number"

InByteRange(n) == -128 <= n /\ n <= 255

\* C15: `.byte n1, ..., nk` with every operand in -128..255 writes the byte
\* ni mod 256 at data_addr + (i - 1), in order, and advances data_addr by k;
\* with an operand outside that range it fails with InvalidByteValue.
C15_ByteDirective ==
    [][ (AtLine /\ IsByteLine(tokenized[line_idx]))
        => LET tokens == tokenized[line_idx]
               k      == Len(tokens) - 1
           IN  IF \A i \in 1..k : InByteRange(tokens[i + 1].value)
               THEN /\ asm_error' = ""
                    /\ data_addr' = data_addr + k
                    /\ \A i \in 1..k :
                         MemAt(memory', (data_addr - BASE_DATA_ADDR) + (i - 1))
                             = tokens[i + 1].value % 256
               ELSE /\ asm_error' = "InvalidByteValue"
                    /\ phase' = "exited" ]_vars

\* C15 witness: a `.byte` line with a negative and a positive operand has
\* been assembled after other data.
C15_Witness ==
    /\ phase = "assemble"
    /\ line_idx > 2
    /\ IsByteLine(tokenized[line_idx - 1])
    /\ Len(tokenized[line_idx - 1]) = 3
    /\ tokenized[line_idx - 1][2].value = -128
    /\ tokenized[line_idx - 1][3].value = 200
    /\ data_addr = BASE_DATA_ADDR + 5
    /\ MemAt(memory, 3) = 128
    /\ MemAt(memory, 4) = 200

\* the bytes a token-line lays down: S for .ascii, S and 0x00 for .asciiz,
\* one byte per in-range value of .byte up to the first that is out of range
RECURSIVE ByteRun(_)
ByteRun(tokens) ==
    IF tokens = <<>> \/ tokens[1].type # "Number" \/ ~InByteRange(tokens[1].value)
    THEN <<>>
    ELSE << tokens[1].value % 256 >> \o ByteRun(Tail(tokens))

EmittedBy(tokens) ==
    LET st == Statement(tokens) IN
    IF st = <<>> \/ st[1].type # "Directive" THEN <<>>
    ELSE IF st[1].kind = "ByteDirective" THEN ByteRun(Tail(st))
    ELSE IF st[1].kind \in {"AsciiDirective", "AsciizDirective"}
            /\ Len(st) >= 2 /\ st[2].type = "Text"
    THEN LET S == [i \in 1..Len(st[2].text) |-> Ord(st[2].text[i])]
         IN  IF st[1].kind = "AsciizDirective" THEN S \o << 0 >> ELSE S
    ELSE <<>>

RECURSIVE EmittedUpTo(_)
EmittedUpTo(n) ==
    IF n = 0 THEN <<>> ELSE EmittedUpTo(n - 1) \o EmittedBy(tokenized[n])

\* the token-lines assemble() has processed, the failing one included
Processed ==
    IF asm_error # "" /\ line_idx <= Len(tokenized) THEN line_idx ELSE line_idx - 1

\* C16: at every point of assembly, data_addr is BASE_DATA_ADDR plus the
\* number of bytes the data directives processed so far have emitted, these
\* bytes lie one after another from BASE_DATA_ADDR upward in the order of
\* their emission, and nothing else has been written.
C16_DataAddrAccounting ==
    LET E == EmittedUpTo(Processed) IN
    /\ data_addr = BASE_DATA_ADDR + Len(E)
    /\ \A i \in 1..Len(E) : MemAt(memory, i - 1) = E[i]
    /\ DOMAIN memory.bytes \subseteq 0..(Len(E) - 1)

\* C16 witness: .asciiz, .byte, .ascii and .byte again have been assembled.
C16_Witness ==
    /\ phase = "assemble"
    /\ line_idx = 5
    /\ Statement(tokenized[1])[1] = DirectiveTok("AsciizDirective")
    /\ IsByteLine(tokenized[2])
    /\ Statement(tokenized[3])[1] = DirectiveTok("AsciiDirective")
    /\ IsByteLine(tokenized[4])
    /\ data_addr = BASE_DATA_ADDR + 10
    /\ MemAt(memory, 2) = 0
    /\ MemAt(memory, 9) = 7

IsLi(tokens) ==
    /\ Len(tokens) = 3
    /\ tokens[1] = OperatorTok(<<"l","i">>)
    /\ parse_register(tokens, 2).err = ""
    /\ tokens[3].type = "Number"

\* the low 16 bits of N read as an i16
LowAsI16(N) == IF N % TwoTo16 >= 32768 THEN (N % TwoTo16) - TwoTo16 ELSE N % TwoTo16

\* C18: `li rd, N` with N outside [-32768, 32767] and non-zero low 16 bits
\* appends exactly LoadUpperImmediate{rd, N >> 16} and
\* OrImmediate{rd, rd, (N & 0xFFFF) as i16}.
C18_LiExpandsToLuiOri ==
    [][ ( /\ AtLine
          /\ IsLi(tokenized[line_idx])
          /\ LET N == tokenized[line_idx][3].value
             IN  (N < -32768 \/ N > 32767) /\ N % TwoTo16 # 0 )
        => LET N  == tokenized[line_idx][3].value
               rd == parse_register(tokenized[line_idx], 2).val
           IN  text_lines' = text_lines
                   \o << LoadUpperImmediate(rd, N \div TwoTo16),
                         OrImmediate(rd, rd, LowAsI16(N)) >> ]_vars

\* the content of a string literal with \n, \t, \\ and \" decoded
RECURSIVE DecodeEscapes(_)
DecodeEscapes(raw) ==
    IF raw = <<>> THEN <<>>
    ELSE IF raw[1] = "\\" /\ Len(raw) >= 2 /\ raw[2] \in {"n", "t", "\\", "\""}
    THEN << CASE raw[2] = "n" -> "\n" [] raw[2] = "t" -> "\t"
              [] raw[2] = "\\" -> "\\" [] raw[2] = "\"" -> "\"" >>
         \o DecodeEscapes(SubSeq(raw, 3, Len(raw)))
    ELSE << raw[1] >> \o DecodeEscapes(Tail(raw))

\* C19: a line `.asciiz "S"` of a file that tokenizes gives the directive
\* and exactly one Text token, whose value is S with its escapes decoded,
\* whatever spaces, commas and escaped quotes S holds.
C19_StringLiteralOneToken ==
    [][ (phase = "tokenize" /\ asm_error' = "")
        => \A n \in 1..Len(KeptLines(source)) : \A s \in Literals :
             KeptLines(source)[n] = AsciizStmt(s)
             => ( /\ phase' = "assemble"
                  /\ tokenized'[n] = << DirectiveTok("AsciizDirective"),
                                        TextTok(DecodeEscapes(s)) >> ) ]_vars

\* the 32-bit sign extension of the low 16 bits of imm
SignExtend16(imm) ==
    IF imm % TwoTo16 >= 32768 THEN Word(TwoTo16 - 1, imm % TwoTo16)
    ELSE Word(0, imm % TwoTo16)

\* C20: executing OrImmediate{res, reg, imm} with res not $zero leaves in
\* R[res] the OR of R[reg] with the sign extension of the 16-bit imm: with
\* bit 15 of imm set, the upper 16 bits of the result are all ones.
C20_OriSignExtends ==
    [][ ( /\ AtInstruction
          /\ instructions[pc].op = "OrImmediate"
          /\ instructions[pc].res # ZERO )
        => RegGet(registers', instructions[pc].res)
               = BitOr(RegGet(registers, instructions[pc].reg),
                       SignExtend16(instructions[pc].imm)) ]_vars

\* the last line of the file is `la rd, L` and every instruction of the image
\* has been executed
LaExecuted ==
    /\ phase \in { "run", "exited" }
    /\ tokenized # <<>>
    /\ IsLa(tokenized[Len(tokenized)])
    /\ steps >= Len(text_lines)

\* C21: once the two instructions of `la rd, L` have been executed, for L a
\* data label and rd not $zero, R[rd] is L's address; also when the low 16
\* bits of the address are 0x8000 or more.
C21_LaLoadsAddress ==
    ( /\ LaExecuted
      /\ RegisterFromStr(tokenized[Len(tokenized)][2].text).reg # ZERO
      /\ symbols[tokenized[Len(tokenized)][3].text].segment = "Data" )
    => RegGet(registers, RegisterFromStr(tokenized[Len(tokenized)][2].text).reg)
           = ToWord(symbols[tokenized[Len(tokenized)][3].text].address)

\* C21 witness: `la $a0, msg` has been executed for msg at 0x10019C40, after
\* $a0 held all ones.
C21_Witness ==
    /\ LaExecuted
    /\ Len(tokenized) = 2
    /\ symbols[msg].address = BASE_DATA_ADDR + 40000
    /\ instructions[BASE_TEXT_ADDR + 8] = OrImmediate(A0, A0, 40000)
    /\ registers[A0] = Word(4097, 40000)

\* the token-lines `L: .ascii "S"`, `L: .asciiz "S"` and `L: .byte n, ...`
\* that lay down at least one byte
IsLabelledData(tokens) ==
    /\ HasLabelDecl(tokens)
    /\ Len(tokens) >= 3
    /\ tokens[2].type = "Directive"
    /\ tokens[2].kind \in { "AsciiDirective", "AsciizDirective", "ByteDirective" }
    /\ EmittedBy(tokens) # <<>>

\* C22: for a line `L: .ascii/.asciiz/.byte ...`, the address recorded for L
\* is the address at which the directive's first byte is written, in
\* whichever segment the line is met.
C22_DataLabelAtFirstByte ==
    [][ (AtLine /\ IsLabelledData(tokenized[line_idx]))
        => LET L     == tokenized[line_idx][1].text
               first == { i \in DOMAIN memory'.bytes : i \notin DOMAIN memory.bytes }
           IN  /\ L \in DOMAIN symbols'
               /\ \A i \in first : symbols'[L].address <= BASE_DATA_ADDR + i
               /\ \E i \in first : symbols'[L].address = BASE_DATA_ADDR + i ]_vars

\* C22 as amended: for a line `L: .ascii/.asciiz/.byte ...` met while the
\* current segment is Data, the address recorded for L is the address at
\* which the directive's first byte is written.
C22_DataLabelInDataSegment ==
    [][ (AtLine /\ IsLabelledData(tokenized[line_idx]) /\ current_segment = "Data")
        => LET L     == tokenized[line_idx][1].text
               first == { i \in DOMAIN memory'.bytes : i \notin DOMAIN memory.bytes }
           IN  /\ L \in DOMAIN symbols'
               /\ symbols'[L].segment = "Data"
               /\ \A i \in first : symbols'[L].address <= BASE_DATA_ADDR + i
               /\ \E i \in first : symbols'[L].address = BASE_DATA_ADDR + i ]_vars

\* C22 witness: in segment Data, after other data, a labelled directive has
\* been assembled and its label recorded past the data base.
C22_Witness ==
    /\ phase = "assemble"
    /\ line_idx > 2
    /\ IsLabelledData(tokenized[line_idx - 1])
    /\ current_segment = "Data"
    /\ symbols[tokenized[line_idx - 1][1].text].address > BASE_DATA_ADDR
    /\ data_addr > symbols[tokenized[line_idx - 1][1].text].address

\* C23: executing AddImmediate, AddUnsigned, LoadUpperImmediate or
\* OrImmediate through step() adds 4 to pc, returns no error, and changes no
\* register other than res, nor the memory, the text image or stdout.
C23_RegisterInstructionFrame ==
    [][ (AtInstruction /\ instructions[pc].op # "SystemCall")
        => ( /\ pc' = pc + 4
             /\ phase' = "run"
             /\ sim_error' = NoError
             /\ \A r \in 0..31 : r # instructions[pc].res => registers'[r] = registers[r]
             /\ sim_memory' = sim_memory
             /\ instructions' = instructions
             /\ stdout' = stdout ) ]_vars

\* C23 witness: an AddUnsigned has just written $a1 while $t0 and printed
\* output were there to be disturbed.
C23_Witness ==
    /\ phase = "run"
    /\ (pc - 4) \in DOMAIN instructions
    /\ instructions[pc - 4] = AddUnsigned(A1, T0, T0)
    /\ registers[T0] = Word(0, 5)
    /\ registers[A1] = Word(0, 10)
=============================================================================
